---- MODULE Spec2Model ----
(***************************************************************************)
(* A model of build.py, the catalog build script of Lacteos Buenos Aires.  *)
(*                                                                         *)
(* Text is modelled as a sequence of characters, each character a string   *)
(* token, so that trimming, upper-casing, substring search, the year       *)
(* regex and the price parser are computed character by character.  An     *)
(* accented letter is written as its base letter followed by an            *)
(* apostrophe ("E'" is E-acute, "o'" is o-acute) and n-tilde as "N~"/"n~". *)
(*                                                                         *)
(* A spreadsheet cell is NA (empty), Num(n) (a numeric cell) or Text(s).   *)
(* A float is [mant, exp], the number mant / 10^exp, with no trailing zero *)
(* in the fraction.                                                        *)
(*                                                                         *)
(* Each function of the script has a specification of its own that draws   *)
(* the function's input from a bounded set and applies it (SpecBrand,      *)
(* SpecPrice, SpecCategory, SpecColumns, SpecRows); SpecMain is main():    *)
(* the loop over the sorted files, the sort, the catalog and the write of  *)
(* the output file chunk by chunk.                                         *)
(***************************************************************************)
EXTENDS Integers, Sequences, FiniteSets, TLC

VARIABLES
    pc,            \* where the run is
    filename,      \* extract_brand_from_filename: its argument
    brand,         \*   and its result
    value,         \* clean_price: the price cell
    price,         \*   and the record's price
    product_name,  \* categorize_product: its argument
    category,      \*   and its result
    columns,       \* process_excel_file: df.columns, the normalised labels
    code_col,      \*   the label mapped to each role, or None
    name_col,
    unit_col,
    price_col,
    row,           \*   one data row: [code, name, unit, price], cells
    products,      \*   the records emitted for it
    portfolio,     \* main: the files of PORTFOLIO_DIR
    excel_files,   \*   sorted(excel_files)
    file_i,        \*   how many of them the loop has done
    all_products,
    brands,
    output,        \*   << >> before the catalog is built, then <<the catalog>>
    site_data,     \*   the content of OUTPUT_FILE
    log            \*   the lines printed by process_excel_file

vars == <<pc, filename, brand, value, price, product_name, category, columns,
          code_col, name_col, unit_col, price_col, row, products, portfolio,
          excel_files, file_i, all_products, brands, output, site_data, log>>

brandVars == <<filename, brand>>
priceVars == <<value, price>>
catVars == <<product_name, category>>
colVars == <<columns, code_col, name_col, unit_col, price_col>>
rowVars == <<row, products>>
mainVars == <<portfolio, excel_files, file_i, all_products, brands, output,
              site_data, log>>

\* ------------------------------------------------------------- bounds

MaxStem == 6
MaxPriceLen == 4
MaxNum == 2

\* --------------------------------------------------------------- text

None == <<"None">>

SeqsUpTo(S, n) == UNION {[1..k -> S] : k \in 0..n}

\* ord(c)
CharCode ==
  (" " :> 32) @@
  ("!" :> 33) @@
  ("#" :> 35) @@
  ("$" :> 36) @@
  ("%" :> 37) @@
  ("&" :> 38) @@
  ("'" :> 39) @@
  ("(" :> 40) @@
  (")" :> 41) @@
  ("*" :> 42) @@
  ("+" :> 43) @@
  ("," :> 44) @@
  ("-" :> 45) @@
  ("." :> 46) @@
  ("/" :> 47) @@
  ("0" :> 48) @@
  ("1" :> 49) @@
  ("2" :> 50) @@
  ("3" :> 51) @@
  ("4" :> 52) @@
  ("5" :> 53) @@
  ("6" :> 54) @@
  ("7" :> 55) @@
  ("8" :> 56) @@
  ("9" :> 57) @@
  (":" :> 58) @@
  (";" :> 59) @@
  ("<" :> 60) @@
  ("=" :> 61) @@
  (">" :> 62) @@
  ("?" :> 63) @@
  ("@" :> 64) @@
  ("A" :> 65) @@
  ("B" :> 66) @@
  ("C" :> 67) @@
  ("D" :> 68) @@
  ("E" :> 69) @@
  ("F" :> 70) @@
  ("G" :> 71) @@
  ("H" :> 72) @@
  ("I" :> 73) @@
  ("J" :> 74) @@
  ("K" :> 75) @@
  ("L" :> 76) @@
  ("M" :> 77) @@
  ("N" :> 78) @@
  ("O" :> 79) @@
  ("P" :> 80) @@
  ("Q" :> 81) @@
  ("R" :> 82) @@
  ("S" :> 83) @@
  ("T" :> 84) @@
  ("U" :> 85) @@
  ("V" :> 86) @@
  ("W" :> 87) @@
  ("X" :> 88) @@
  ("Y" :> 89) @@
  ("Z" :> 90) @@
  ("[" :> 91) @@
  ("]" :> 93) @@
  ("^" :> 94) @@
  ("_" :> 95) @@
  ("`" :> 96) @@
  ("a" :> 97) @@
  ("b" :> 98) @@
  ("c" :> 99) @@
  ("d" :> 100) @@
  ("e" :> 101) @@
  ("f" :> 102) @@
  ("g" :> 103) @@
  ("h" :> 104) @@
  ("i" :> 105) @@
  ("j" :> 106) @@
  ("k" :> 107) @@
  ("l" :> 108) @@
  ("m" :> 109) @@
  ("n" :> 110) @@
  ("o" :> 111) @@
  ("p" :> 112) @@
  ("q" :> 113) @@
  ("r" :> 114) @@
  ("s" :> 115) @@
  ("t" :> 116) @@
  ("u" :> 117) @@
  ("v" :> 118) @@
  ("w" :> 119) @@
  ("x" :> 120) @@
  ("y" :> 121) @@
  ("z" :> 122) @@
  ("{" :> 123) @@
  ("|" :> 124) @@
  ("}" :> 125) @@
  ("~" :> 126) @@
  ("\t" :> 9) @@
  ("E'" :> 201) @@
  ("O'" :> 211) @@
  ("U'" :> 218) @@
  ("A'" :> 193) @@
  ("I'" :> 205) @@
  ("N~" :> 209) @@
  ("e'" :> 233) @@
  ("o'" :> 243) @@
  ("u'" :> 250) @@
  ("a'" :> 225) @@
  ("i'" :> 237) @@
  ("n~" :> 241)

UpperTable ==
  ("a" :> "A") @@
  ("b" :> "B") @@
  ("c" :> "C") @@
  ("d" :> "D") @@
  ("e" :> "E") @@
  ("f" :> "F") @@
  ("g" :> "G") @@
  ("h" :> "H") @@
  ("i" :> "I") @@
  ("j" :> "J") @@
  ("k" :> "K") @@
  ("l" :> "L") @@
  ("m" :> "M") @@
  ("n" :> "N") @@
  ("o" :> "O") @@
  ("p" :> "P") @@
  ("q" :> "Q") @@
  ("r" :> "R") @@
  ("s" :> "S") @@
  ("t" :> "T") @@
  ("u" :> "U") @@
  ("v" :> "V") @@
  ("w" :> "W") @@
  ("x" :> "X") @@
  ("y" :> "Y") @@
  ("z" :> "Z") @@
  ("e'" :> "E'") @@
  ("o'" :> "O'") @@
  ("u'" :> "U'") @@
  ("a'" :> "A'") @@
  ("i'" :> "I'") @@
  ("n~" :> "N~")

upper_char(c) == IF c \in DOMAIN UpperTable THEN UpperTable[c] ELSE c

\* str.upper()
upper(s) == [i \in 1..Len(s) |-> upper_char(s[i])]

isspace(c) == c \in {" ", "\t"}

isdigit(c) == c \in {"0", "1", "2", "3", "4", "5", "6", "7", "8", "9"}

RECURSIVE lstrip(_)
lstrip(s) == IF s /= << >> /\ isspace(Head(s)) THEN lstrip(Tail(s)) ELSE s

RECURSIVE rstrip(_)
rstrip(s) ==
  IF s /= << >> /\ isspace(s[Len(s)]) THEN rstrip(SubSeq(s, 1, Len(s) - 1)) ELSE s

\* str.strip()
strip(s) == rstrip(lstrip(s))

\* sub in s
contains(s, sub) ==
  \E i \in 0..(Len(s) - Len(sub)) : SubSeq(s, i + 1, i + Len(sub)) = sub

Digits == <<"0", "1", "2", "3", "4", "5", "6", "7", "8", "9">>

RECURSIVE nat_str(_)
nat_str(n) ==
  IF n < 10 THEN <<Digits[n + 1]>> ELSE nat_str(n \div 10) \o <<Digits[(n % 10) + 1]>>

\* ------------------------------------------------------------- cells

NA == [t |-> "na", v |-> 0, s |-> << >>]
Num(n) == [t |-> "num", v |-> n, s |-> << >>]
Text(s) == [t |-> "str", v |-> 0, s |-> s]

\* pd.isna(cell)
isna(cell) == cell.t = "na"

\* str(cell) of a cell that is not NA
str(cell) ==
  IF cell.t = "str" THEN cell.s
  ELSE IF cell.v < 0 THEN <<"-">> \o nat_str(0 - cell.v)
  ELSE nat_str(cell.v)

\* ------------------------------------------- extract_brand_from_filename

\* Path(filename).stem, of a file name that holds no directory separator
PathStem(name) ==
  LET dots == {i \in 1..Len(name) : name[i] = "."}
      i == IF dots = {} THEN 0 ELSE CHOOSE d \in dots : \A e \in dots : e <= d
  IN IF 1 < i /\ i < Len(name) THEN SubSeq(name, 1, i - 1) ELSE name

\* Whether the regex of the given whitespace rule, followed by \d{2,4}$,
\* matches name from offset i on: k whitespace characters, then 2 to 4 digits,
\* then the end of the string.
year_match_at(name, i, min_ws) ==
  \E k \in min_ws..(Len(name) - i) :
     /\ \A j \in (i + 1)..(i + k) : isspace(name[j])
     /\ (Len(name) - i - k) \in 2..4
     /\ \A j \in (i + k + 1)..Len(name) : isdigit(name[j])

\* re.sub of the leftmost match; nothing is left to match after it
re_sub_at_leftmost(name, min_ws) ==
  LET starts == {i \in 0..Len(name) : year_match_at(name, i, min_ws)}
  IN IF starts = {} THEN name
     ELSE SubSeq(name, 1, CHOOSE i \in starts : \A j \in starts : i <= j)

\* re.sub(r'\s+\d{2,4}$', '', name): the year token with its whitespace required
re_sub_year_ws_required(name) == re_sub_at_leftmost(name, 1)

\* re.sub(r'\s*\d{2,4}$', '', name)
re_sub_year(name) == re_sub_at_leftmost(name, 0)

extract_brand_from_filename(fname) == strip(re_sub_year(PathStem(fname)))

\* ------------------------------------------------------------ clean_price

Float(m, e) == [mant |-> m, exp |-> e]

Zero == Float(0, 0)

RECURSIVE normal(_, _)
normal(m, e) == IF e > 0 /\ m % 10 = 0 THEN normal(m \div 10, e - 1) ELSE Float(m, e)

RECURSIVE digits_nat(_)
digits_nat(s) ==
  IF s = << >> THEN 0
  ELSE 10 * digits_nat(SubSeq(s, 1, Len(s) - 1))
       + (CHOOSE d \in 0..9 : Digits[d + 1] = s[Len(s)])

\* float(s) succeeds on a string of digits and periods exactly when it has at
\* most one period and at least one digit
float_parses(s) ==
  /\ Cardinality({i \in 1..Len(s) : s[i] = "."}) <= 1
  /\ \E i \in 1..Len(s) : isdigit(s[i])

float_of(s) ==
  LET dot == {i \in 1..Len(s) : s[i] = "."}
      frac == IF dot = {} THEN 0 ELSE Len(s) - (CHOOSE i \in dot : TRUE)
  IN normal(digits_nat(SelectSeq(s, isdigit)), frac)

\* re.sub(r'[^\d.,]', '', text)
keep_price_chars(s) == SelectSeq(s, LAMBDA c : isdigit(c) \/ c \in {".", ","})

\* The branch for text: strip, replace, float() or 0.0 on ValueError
text_price(s) ==
  LET kept == keep_price_chars(s)
      cleaned == [i \in 1..Len(kept) |-> IF kept[i] = "," THEN "." ELSE kept[i]]
  IN IF float_parses(cleaned) THEN float_of(cleaned) ELSE Zero

\* A numeric cell as it would fare without the isinstance branch
numeric_price_as_text(cell) == text_price(str(cell))

\* float(value) of a numeric cell
numeric_price(cell) == Float(cell.v, 0)

clean_price(cell) ==
  IF isna(cell) THEN Zero
  ELSE IF cell.t = "num" THEN numeric_price(cell)
  ELSE text_price(str(cell))

\* product['price'] of a row
record_price(cell, pcol) == IF pcol /= None THEN clean_price(cell) ELSE Zero


\* ------------------------------------------------- idle values of a run

IdleBrand == filename = << >> /\ brand = << >>
IdlePrice == value = NA /\ price = Zero
IdleCategory == product_name = << >> /\ category = << >>
IdleColumns ==
  /\ columns = << >>
  /\ code_col = None /\ name_col = None /\ unit_col = None /\ price_col = None
IdleRows == row = << >> /\ products = << >>
IdleMain ==
  /\ portfolio = {} /\ excel_files = << >> /\ file_i = 0
  /\ all_products = << >> /\ brands = {} /\ output = << >>
  /\ site_data = [exists |-> FALSE, chunks |-> << >>] /\ log = << >>


\* ------------------------------------------------------ categorize_product

\* The keyword table, in the order the dict literal lists it
categories ==
  <<
  [category |-> <<"C","a","f","e'"," ","y"," ","C","h","o","c","o","l","a","t","e">>,
   keywords |-> <<
         <<"C","A","F","E">>,
         <<"C","A","F","E'">>,
         <<"N","E","S","C","A","F","E">>,
         <<"L","U","K","A","F","E">>,
         <<"C","O","F","F","E","E">>,
         <<"C","O","C","O","A">>,
         <<"C","A","C","A","O">>,
         <<"C","H","O","C","O","L","A","T","E">>,
         <<"L","U","K","E","R">>,
         <<"C","O","B","E","R","T","U","R","A">>,
         <<"M","I","L","O">>,
         <<"C","A","P","P","U","C","C","I","N","O">>,
         <<"M","O","K","A","C","C","I","N","O">> >>],
  [category |-> <<"L","a'","c","t","e","o","s">>,
   keywords |-> <<
         <<"L","E","C","H","E">>,
         <<"Q","U","E","S","O">>,
         <<"Y","O","G","U","R">>,
         <<"Y","O","G","U","R","T">>,
         <<"C","R","E","M","A"," ","D","E"," ","L","E","C","H","E">>,
         <<"M","A","N","T","E","Q","U","I","L","L","A">>,
         <<"K","U","M","I","S">>,
         <<"A","R","E","Q","U","I","P","E">>,
         <<"K","L","I","M">>,
         <<"C","O","N","D","E","N","S","A","D","A">>,
         <<"M","A","R","G","A","R","I","N","A">>,
         <<"M","A","R","G",".">>,
         <<"L","A","C","T","E","A">>,
         <<"L","E","C","H","E","R","A">> >>],
  [category |-> <<"B","e","b","i","d","a","s">>,
   keywords |-> <<
         <<"J","U","G","O">>,
         <<"N","E","C","T","A","R">>,
         <<"R","E","F","R","E","S","C","O">>,
         <<"G","A","S","E","O","S","A">>,
         <<"T","A","N","G">>,
         <<"C","L","I","G","H","T">>,
         <<"B","E","B","I","D","A">>,
         <<"W","A","T","E","R">>,
         <<"A","G","U","A">>,
         <<"L","I","M","O","N","A","D","A">>,
         <<"N","A","R","A","N","J","A","D","A">>,
         <<"T","E"," ">>,
         <<"T","E","A">>,
         <<"T","I","S","A","N","A">> >>],
  [category |-> <<"C","o","n","g","e","l","a","d","o","s">>,
   keywords |-> <<
         <<"C","O","N","G","E","L","A","D">>,
         <<"F","R","O","Z","E","N">>,
         <<"H","E","L","A","D","O">>,
         <<"H","I","E","L","O">>,
         <<"P","A","P","A"," ","F","R","I","T">>,
         <<"P","A","P","A","S"," ","A"," ","L","A">>,
         <<"N","U","G","G","E","T">>,
         <<"A","P","A","N","A","D","O">>,
         <<"P","R","E","C","O","C","I","D">> >>],
  [category |-> <<"E","n","l","a","t","a","d","o","s"," ","y"," ","C","o","n","s","e","r","v","a","s">>,
   keywords |-> <<
         <<"A","T","U","N">>,
         <<"A","T","U'","N">>,
         <<"S","A","R","D","I","N","A">>,
         <<"E","N","L","A","T","A","D">>,
         <<"C","O","N","S","E","R","V","A">>,
         <<"A","C","E","I","T","U","N","A">>,
         <<"C","E","R","E","Z","A">>,
         <<"M","A","R","A","S","C","H","I","N","O">>,
         <<"A","L","C","A","P","A","R","R","A">>,
         <<"P","E","P","I","N","I","L","L","O">>,
         <<"E","N","C","U","R","T","I","D","O">>,
         <<"C","E","R","N","I","D","O">>,
         <<"P","U","L","P","A">> >>],
  [category |-> <<"S","a","l","s","a","s"," ","y"," ","C","o","n","d","i","m","e","n","t","o","s">>,
   keywords |-> <<
         <<"S","A","L","S","A">>,
         <<"M","A","Y","O","N","E","S","A">>,
         <<"M","O","S","T","A","Z","A">>,
         <<"K","E","T","C","H","U","P">>,
         <<"V","I","N","A","G","R","E">>,
         <<"C","A","L","D","O">>,
         <<"S","A","Z","O","N">>,
         <<"S","A","Z","O'","N">>,
         <<"P","I","M","I","E","N","T","A">>,
         <<"E","S","P","E","C","I","A","S">>,
         <<"A","D","O","B","O">>,
         <<"C","U","R","R","Y">>,
         <<"C","O","M","I","N","O">>,
         <<"B","B","Q">> >>],
  [category |-> <<"A","c","e","i","t","e","s"," ","y"," ","G","r","a","s","a","s">>,
   keywords |-> <<
         <<"A","C","E","I","T","E">>,
         <<"O","L","I","V","A">>,
         <<"G","I","R","A","S","O","L">>,
         <<"V","E","G","E","T","A","L">>,
         <<"C","A","N","O","L","A">>,
         <<"M","A","N","T","E","C","A">>,
         <<"G","R","A","S","A">> >>],
  [category |-> <<"P","a","n","a","d","e","r","i'","a"," ","y"," ","R","e","p","o","s","t","e","r","i'","a">>,
   keywords |-> <<
         <<"H","A","R","I","N","A">>,
         <<"H",".","R","I","C","A","M","A","S","A">>,
         <<"L","E","V","A","D","U","R","A">>,
         <<"L","E","V","A","P","A","N">>,
         <<"T","O","R","T","A">>,
         <<"P","O","N","Q","U","E">>,
         <<"P","R","E","M","E","Z","C","L","A">>,
         <<"P","O","L","V","O"," ","H","O","R","N","E","A","R">>,
         <<"G","E","L","A","T","I","N","A">>,
         <<"G","E","L"," ","S","I","N"," ","S","A","B","O","R">>,
         <<"F","L","A","N">>,
         <<"N","A","T","I","L","L","A">> >>],
  [category |-> <<"D","u","l","c","e","s"," ","y"," ","C","o","n","f","i","t","e","r","i'","a">>,
   keywords |-> <<
         <<"D","U","L","C","E">>,
         <<"C","A","R","A","M","E","L","O">>,
         <<"G","A","L","L","E","T","A">>,
         <<"B","O","C","A","D","I","L","L","O">>,
         <<"M","E","R","M","E","L","A","D","A">>,
         <<"M","I","E","L">>,
         <<"A","Z","U","C","A","R">>,
         <<"A","Z","U'","C","A","R">>,
         <<"P","A","N","E","L","A">>,
         <<"G","U","A","Y","A","B","A">>,
         <<"A","R","E","Q","U","I","P","E">>,
         <<"M","A","N","J","A","R">>,
         <<"O","B","L","E","A","S">>,
         <<"C","O","C","O"," ","A","R","T","E","S","A","N","A","L">>,
         <<"O","R","E","O">>,
         <<"C","H","I","P","S"," ","A","H","O","Y">>,
         <<"C","L","U","B"," ","S","O","C","I","A","L">>,
         <<"F","E","S","T","I","V","A","L">>,
         <<"N","U","C","I","T","A">> >>],
  [category |-> <<"C","e","r","e","a","l","e","s"," ","y"," ","G","r","a","n","o","s">>,
   keywords |-> <<
         <<"C","E","R","E","A","L">>,
         <<"A","V","E","N","A">>,
         <<"Z","U","C","A","R","I","T","A","S">>,
         <<"C","O","R","N"," ","F","L","A","K","E","S">>,
         <<"K","E","L","L","O","G","G">>,
         <<"G","R","A","N","O","L","A">>,
         <<"A","R","R","O","Z">>,
         <<"L","E","N","T","E","J","A">>,
         <<"F","R","I","J","O","L">>,
         <<"G","A","R","B","A","N","Z","O">>,
         <<"C","H","O","C","A","P","I","C">>,
         <<"F","I","T","N","E","S","S">> >>],
  [category |-> <<"C","a","r","n","e","s"," ","y"," ","E","m","b","u","t","i","d","o","s">>,
   keywords |-> <<
         <<"C","A","R","N","E">>,
         <<"P","O","L","L","O">>,
         <<"C","E","R","D","O">>,
         <<"R","E","S">>,
         <<"J","A","M","O","N">>,
         <<"J","A","M","O'","N">>,
         <<"S","A","L","C","H","I","C","H","A">>,
         <<"C","H","O","R","I","Z","O">>,
         <<"T","O","C","I","N","E","T","A">>,
         <<"B","A","C","O","N">>,
         <<"M","O","R","T","A","D","E","L","A">>,
         <<"S","A","L","A","M","I">>,
         <<"H","A","M","B","U","R","G","U","E","S","A">> >>],
  [category |-> <<"F","r","u","t","a","s"," ","y"," ","V","e","r","d","u","r","a","s">>,
   keywords |-> <<
         <<"F","R","U","T","A">>,
         <<"V","E","R","D","U","R","A">>,
         <<"S","E","T","A">>,
         <<"C","H","A","M","P","I","N~","O","N">>,
         <<"C","H","A","M","P","I","N~","O'","N">>,
         <<"H","O","N","G","O">>,
         <<"P","I","N~","A">>,
         <<"M","A","N","G","O">>,
         <<"F","R","E","S","A">>,
         <<"M","O","R","A">>,
         <<"D","U","R","A","Z","N","O">>,
         <<"T","O","M","A","T","E">>,
         <<"C","E","B","O","L","L","A">>,
         <<"M","A","I","Z">>,
         <<"M","A","I'","Z">>,
         <<"A","R","V","E","J","A">> >>],
  [category |-> <<"L","i","m","p","i","e","z","a"," ","y"," ","H","o","g","a","r">>,
   keywords |-> <<
         <<"D","E","T","E","R","G","E","N","T","E">>,
         <<"D","E","T",".">>,
         <<"J","A","B","O","N">>,
         <<"J","A","B","O'","N">>,
         <<"L","I","M","P","I","A">>,
         <<"L","A","V","A","L","O","Z","A">>,
         <<"D","E","S","I","N","F","E","C","T">>,
         <<"C","L","O","R","O">>,
         <<"B","L","A","N","Q","U","E","A","D","O","R">>,
         <<"S","U","A","V","I","Z","A","N","T","E">>,
         <<"G","R","A","N","D","I","O","S","O">>,
         <<"P","O","P","O","U","R","R","I">>,
         <<"L","A","V","A","N","D","A">>,
         <<"F","A","S","S","I">> >>],
  [category |-> <<"E","m","p","a","q","u","e","s"," ","y"," ","D","e","s","e","c","h","a","b","l","e","s">>,
   keywords |-> <<
         <<"E","M","P","A","Q","U","E">>,
         <<"P","A","P","E","L">>,
         <<"W","R","A","P">>,
         <<"C","O","N","T","E","N","E","D","O","R">>,
         <<"V","A","S","O">>,
         <<"P","L","A","T","O">>,
         <<"C","U","C","H","A","R","A">>,
         <<"T","E","N","E","D","O","R">>,
         <<"S","E","R","V","I","L","L","E","T","A">>,
         <<"B","O","L","S","A">>,
         <<"A","L","U","M","I","N","I","O">>,
         <<"F","I","L","M">>,
         <<"S","T","R","E","T","C","H">>,
         <<"D","E","S","E","C","H","A","B","L","E">> >>] >>

Otros == <<"O","t","r","o","s">>

\* Whether some keyword of the i-th category occurs in name_upper
keyword_hit(name_upper, i) ==
  \E k \in 1..Len(categories[i].keywords) :
     contains(name_upper, categories[i].keywords[k])

\* The two nested for loops, from the i-th category on
RECURSIVE scan_categories(_, _)
scan_categories(name_upper, i) ==
  IF i > Len(categories) THEN Otros
  ELSE IF keyword_hit(name_upper, i) THEN categories[i].category
  ELSE scan_categories(name_upper, i + 1)

\* The loops as they would be without the early return: the last hit stays
RECURSIVE scan_keep_last(_, _, _)
scan_keep_last(name_upper, i, found) ==
  IF i > Len(categories) THEN found
  ELSE scan_keep_last(name_upper, i + 1,
         IF keyword_hit(name_upper, i) THEN categories[i].category ELSE found)

categorize_product_last_hit(name) == scan_keep_last(upper(name), 1, Otros)

categorize_product(name) == scan_categories(upper(name), 1)

\* ------------------------------ SpecCategory: one product name, its category

MaxFrags == 3

NameFrags ==
  { <<"C","A","F","E">>, <<"c","a","f","e'">>, <<"C","h","o","c","o","l","a","t","e">>, <<"A","R","E","Q","U","I","P","E">>, <<"L","E","C","H","E">>, <<"m","i","e","l">>,
    <<"T","E">>, <<" ">>, <<"F","R","E","S","A">>, <<"X">>, <<"P","A","P","E","L">>, <<"D","E","T">>, <<".">> }

RECURSIVE Concat(_)
Concat(ss) == IF ss = << >> THEN << >> ELSE Head(ss) \o Concat(Tail(ss))

ProductNames == {Concat(fs) : fs \in SeqsUpTo(NameFrags, MaxFrags)}

InitCategory ==
  /\ pc = "category"
  /\ product_name \in ProductNames
  /\ category = << >>
  /\ IdleBrand /\ IdlePrice /\ IdleColumns /\ IdleRows /\ IdleMain

Categorize ==
  /\ pc = "category"
  /\ category' = categorize_product(product_name)
  /\ pc' = "category_done"
  /\ UNCHANGED <<product_name, brandVars, priceVars, colVars, rowVars, mainVars>>

SpecCategory == InitCategory /\ [][Categorize]_vars

\* ------------------------------------- process_excel_file: the column mapper

\* str(col).strip().upper() of a header cell
normalize_label(cell) == upper(strip(str(cell)))

NoColumns == [code |-> None, name |-> None, unit |-> None, price |-> None]

is_code_label(col) ==
  contains(upper(col), <<"C","O'","D","I","G","O">>) \/ contains(upper(col), <<"C","O","D","I","G","O">>)

is_name_label(col) ==
  contains(upper(col), <<"P","R","O","D","U","C","T","O">>) \/ contains(upper(col), <<"N","O","M","B","R","E">>)

is_unit_label(col) == contains(upper(col), <<"U","N","I","D","A","D">>)

is_final_label(col) ==
  contains(upper(col), <<"F","I","N","A","L">>) \/ contains(upper(col), <<"P","."," ","F","I","N","A","L">>)

is_precio_label(col) == contains(upper(col), <<"P","R","E","C","I","O">>)

\* The if/elif chain as it would be if a role once mapped were kept
assign_role_keep_first(m, col) ==
  IF is_code_label(col) THEN (IF m.code = None THEN [m EXCEPT !.code = col] ELSE m)
  ELSE IF is_name_label(col) THEN (IF m.name = None THEN [m EXCEPT !.name = col] ELSE m)
  ELSE IF is_unit_label(col) THEN (IF m.unit = None THEN [m EXCEPT !.unit = col] ELSE m)
  ELSE IF is_final_label(col) THEN (IF m.price = None THEN [m EXCEPT !.price = col] ELSE m)
  ELSE m

\* The if/elif chain of one iteration of the loop over df.columns
assign_role(m, col) ==
  IF is_code_label(col) THEN [m EXCEPT !.code = col]
  ELSE IF is_name_label(col) THEN [m EXCEPT !.name = col]
  ELSE IF is_unit_label(col) THEN [m EXCEPT !.unit = col]
  ELSE IF is_final_label(col) THEN [m EXCEPT !.price = col]
  ELSE m

\* for col in df.columns, from the i-th label on
RECURSIVE map_loop(_, _, _)
map_loop(cols, i, m) ==
  IF i > Len(cols) THEN m ELSE map_loop(cols, i + 1, assign_role(m, cols[i]))

first_precio(cols) ==
  LET hits == {i \in 1..Len(cols) : is_precio_label(cols[i])}
  IN IF hits = {} THEN None ELSE cols[CHOOSE i \in hits : \A j \in hits : i <= j]

\* if price_col is None: the first label containing PRECIO, if any
fallback_price(cols, m) ==
  IF m.price = None THEN [m EXCEPT !.price = first_precio(cols)] ELSE m

map_columns(cols) == fallback_price(cols, map_loop(cols, 1, NoColumns))

\* not all([code_col, name_col])
required_missing(m) == m.code \in {None, << >>} \/ m.name \in {None, << >>}

\* ---------------------------------- process_excel_file: one row, its record

\* row.get(col), the row's cells being in the order of the labels
row_get(cols, r, col) ==
  IF \E i \in 1..Len(cols) : cols[i] = col
  THEN r[CHOOSE i \in 1..Len(cols) : cols[i] = col] ELSE NA

\* product['unit']
record_unit(cols, r, ucol) ==
  IF ucol /= None /\ ~isna(row_get(cols, r, ucol))
  THEN strip(str(row_get(cols, r, ucol))) ELSE << >>

\* rows without a valid code or name
lacks_code_or_name(code, name) ==
  \/ isna(code) \/ isna(name)
  \/ strip(str(code)) = << >> \/ strip(str(name)) = << >>

\* header-like rows
is_header_like(code) == upper(str(code)) \in { <<"C","O'","D","I","G","O">>, <<"C","O","D","I","G","O">> }

\* The last test as it would be with >= 2
has_actual_name_from_2(product) == product.name /= << >> /\ Len(product.name) >= 2

\* product['name'] and len(product['name']) > 2
has_actual_name(product) == product.name /= << >> /\ Len(product.name) > 2

\* The body of the loop over df.iterrows(): the records appended for row r
row_records(cols, r, m, b) ==
  LET code == row_get(cols, r, m.code)
      name == row_get(cols, r, m.name)
  IN IF lacks_code_or_name(code, name) THEN << >>
     ELSE IF is_header_like(code) THEN << >>
     ELSE LET product == [code |-> strip(str(code)),
                          name |-> strip(str(name)),
                          unit |-> record_unit(cols, r, m.unit),
                          price |-> record_price(row_get(cols, r, m.price), m.price),
                          brand |-> b]
          IN IF has_actual_name(product) THEN <<product>> ELSE << >>

\* ------------------------------ SpecColumns: the labels of a sheet, mapped

MaxCols == 3

RawLabels ==
  { Text(<<"C","O'","D","I","G","O">>), Text(<<"C","o","d","i","g","o"," ","b","a","r","r","a","s">>), Text(<<"C","O","D","I","G","O"," ","P","R","O","D","U","C","T","O">>),
    Text(<<"P","R","O","D","U","C","T","O">>), Text(<<" ","N","o","m","b","r","e"," ">>), Text(<<"U","N","I","D","A","D">>),
    Text(<<"P","R","E","C","I","O"," ","F","I","N","A","L"," ","U","N","I","D","A","D">>), Text(<<"P","."," ","F","I","N","A","L">>), Text(<<"F","i","n","a","l"," ","2">>),
    Text(<<"P","R","E","C","I","O">>), Text(<<"P","r","e","c","i","o"," ","l","i","s","t","a">>), Text(<<"O","B","S">>) }

\* The labels of a sheet are distinct
LabelLists ==
  {ls \in SeqsUpTo(RawLabels, MaxCols) :
     \A i, j \in 1..Len(ls) : i /= j => normalize_label(ls[i]) /= normalize_label(ls[j])}

InitColumns ==
  /\ pc = "columns"
  /\ columns \in {[i \in 1..Len(ls) |-> normalize_label(ls[i])] : ls \in LabelLists}
  /\ code_col = None /\ name_col = None /\ unit_col = None /\ price_col = None
  /\ IdleBrand /\ IdlePrice /\ IdleCategory /\ IdleRows /\ IdleMain

MapColumns ==
  /\ pc = "columns"
  /\ LET m == map_columns(columns)
     IN /\ code_col' = m.code
        /\ name_col' = m.name
        /\ unit_col' = m.unit
        /\ price_col' = m.price
  /\ pc' = "columns_done"
  /\ UNCHANGED <<columns, brandVars, priceVars, catVars, rowVars, mainVars>>

SpecColumns == InitColumns /\ [][MapColumns]_vars

\* ------------------------------------ SpecRows: one data row, its records

SheetLabels == << <<"C","O","D","I","G","O">>, <<"P","R","O","D","U","C","T","O">>, <<"U","N","I","D","A","D">>, <<"P","."," ","F","I","N","A","L">> >>

CodeCells ==
  { NA, Num(7), Text(<< >>), Text(<<" ">>), Text(<<"A","1">>), Text(<<" ","A","1"," ">>),
    Text(<<"C","O","D","I","G","O">>), Text(<<"c","o","d","i","g","o">>), Text(<<" ","C","O","D","I","G","O">>), Text(<<"C","O'","D","I","G","O"," ">>),
    Text(<<"C","o'","d","i","g","o">>), Text(<<"C","O","D","I","G","O"," ","1">>) }

NameCells ==
  { NA, Num(12), Num(123), Text(<< >>), Text(<<" "," ">>), Text(<<"A","B">>),
    Text(<<" ","A","B"," ","\t">>), Text(<<"A","B","C">>), Text(<<" ","L","E","C","H","E"," ">>), Text(<<"P","R","O","D","U","C","T","O">>) }

UnitCells == { NA, Num(1), Text(<<" ","L","T"," ">>), Text(<< >>) }

RowPriceCells ==
  { NA, Num(0 - 1), Num(7500), Text(<< >>), Text(<<"7",".","5","0">>),
    Text(<<"$"," ","1","2",".","3","4","5",",","6","7">>), Text(<<"-","5">>), Text(<<"a","b","c">>) }

InitRows ==
  /\ pc = "rows"
  /\ columns = SheetLabels
  /\ code_col = SheetLabels[1]
  /\ name_col = SheetLabels[2]
  /\ unit_col \in {None, SheetLabels[3]}
  /\ price_col \in {None, SheetLabels[4]}
  /\ row \in {<<c, n, u, p>> : c \in CodeCells, n \in NameCells,
                               u \in UnitCells, p \in RowPriceCells}
  /\ products = << >>
  /\ filename = << >> /\ brand = <<"A","L","P","I","N","A">>
  /\ IdlePrice /\ IdleCategory /\ IdleMain

ExtractRow ==
  /\ pc = "rows"
  /\ products' = row_records(columns, row,
                   [code |-> code_col, name |-> name_col,
                    unit |-> unit_col, price |-> price_col], brand)
  /\ pc' = "rows_done"
  /\ UNCHANGED <<row, brandVars, priceVars, catVars, colVars, mainVars>>

SpecRows == InitRows /\ [][ExtractRow]_vars

\* ------------------------------------- SpecBrand: one file name, its brand,
\* stamped on the records of one row of the file

Ext == <<".","x","l","s">>

BrandChars == {"A", " ", "2", "."}

BrandRows ==
  { <<Text(<<"A","1">>), Text(<<"L","E","C","H","E"," ","E","N","T","E","R","A">>), Text(<<"L","T">>), Num(4500)>>,
    <<NA, NA, NA, NA>> }

InitBrand ==
  /\ pc = "brand"
  /\ filename \in {s \o Ext : s \in SeqsUpTo(BrandChars, MaxStem)}
  /\ brand = << >>
  /\ columns = SheetLabels
  /\ code_col = SheetLabels[1] /\ name_col = SheetLabels[2]
  /\ unit_col = SheetLabels[3] /\ price_col = SheetLabels[4]
  /\ row \in BrandRows
  /\ products = << >>
  /\ IdlePrice /\ IdleCategory /\ IdleMain

ExtractBrand ==
  /\ pc = "brand"
  /\ brand' = extract_brand_from_filename(filename)
  /\ products' = row_records(columns, row,
                   [code |-> code_col, name |-> name_col,
                    unit |-> unit_col, price |-> price_col], brand')
  /\ pc' = "brand_done"
  /\ UNCHANGED <<filename, row, priceVars, catVars, colVars, mainVars>>

SpecBrand == InitBrand /\ [][ExtractBrand]_vars

\* ---------------------------- SpecPrice: one price cell, the record's price

PriceChars == {"5", "0", ",", ".", "$", "-"}

PriceCells ==
  {NA} \cup {Num(n) : n \in (0 - MaxNum)..MaxNum}
       \cup {Text(s) : s \in SeqsUpTo(PriceChars, MaxPriceLen)}

InitPrice ==
  /\ pc = "price"
  /\ value \in PriceCells
  /\ price = Zero
  /\ price_col \in {None, <<"P","."," ","F","I","N","A","L">>}
  /\ columns = << >> /\ code_col = None /\ name_col = None /\ unit_col = None
  /\ IdleBrand /\ IdleCategory /\ IdleRows /\ IdleMain

CleanPrice ==
  /\ pc = "price"
  /\ price' = record_price(value, price_col)
  /\ pc' = "price_done"
  /\ UNCHANGED <<value, brandVars, catVars, colVars, rowVars, mainVars>>

SpecPrice == InitPrice /\ [][CleanPrice]_vars

\* -------------------------------------------------------- find_header_row

\* ' '.join(str(v).upper() for v in row.values if pd.notna(v))
RECURSIVE row_str(_)
row_str(r) ==
  IF r = << >> THEN << >>
  ELSE IF isna(Head(r)) THEN row_str(Tail(r))
  ELSE LET rest == SelectSeq(Tail(r), LAMBDA c : ~isna(c))
       IN IF rest = << >> THEN upper(str(Head(r)))
          ELSE upper(str(Head(r))) \o <<" ">> \o row_str(rest)

\* The index of the header row, counted from 1 (the script counts from 0)
find_header_row(df_raw) ==
  LET hits == {i \in 1..Len(df_raw) :
                 \/ contains(row_str(df_raw[i]), <<"C","O'","D","I","G","O">>)
                 \/ contains(row_str(df_raw[i]), <<"C","O","D","I","G","O">>)}
  IN IF hits = {} THEN 1 ELSE CHOOSE i \in hits : \A j \in hits : i <= j

\* ----------------------------------------------------- process_excel_file

\* The name pd.read_excel gives the k-th column: the header cell, or
\* "Unnamed: k-1" for an empty one
header_label(cell, k) ==
  IF isna(cell) THEN Text(<<"U","n","n","a","m","e","d",":"," ">> \o nat_str(k - 1)) ELSE cell

\* df.columns after the normalisation, of a sheet read with its header row
sheet_columns(df_raw) ==
  IF df_raw = << >> THEN << >>
  ELSE LET h == df_raw[find_header_row(df_raw)]
       IN [k \in 1..Len(h) |-> normalize_label(header_label(h[k], k))]

\* The rows below the header row
sheet_rows(df_raw) ==
  IF df_raw = << >> THEN << >>
  ELSE SubSeq(df_raw, find_header_row(df_raw) + 1, Len(df_raw))

\* for _, row in df.iterrows(), from the i-th row on
RECURSIVE rows_loop(_, _, _, _, _)
rows_loop(cols, rs, i, m, b) ==
  IF i > Len(rs) THEN << >>
  ELSE row_records(cols, rs[i], m, b) \o rows_loop(cols, rs, i + 1, m, b)

Returned(ps, line) == [products |-> ps, printed |-> line, raised |-> FALSE]

Raised == [products |-> << >>, printed |-> "traceback", raised |-> TRUE]

\* What a failed pd.read_excel would do to the call without its try/except
read_failure_unguarded(line) == Raised

\* except Exception: print the error, return []
read_failure(line) == Returned(<< >>, line)

\* f is a file of the portfolio: its name, what pd.read_excel does with it
\* ("ok", "read_error" at the first read, "reread_error" at the second) and
\* the cells of its first sheet
process_excel_file(f) ==
  IF f.reads = "read_error" THEN read_failure("Error reading file")
  ELSE IF f.reads = "reread_error" THEN read_failure("Error re-reading file")
  ELSE LET cols == sheet_columns(f.sheet)
           m == map_columns(cols)
       IN IF required_missing(m)
          THEN Returned(<< >>, "Could not find required columns")
          ELSE Returned(rows_loop(cols, sheet_rows(f.sheet), 1, m,
                                  extract_brand_from_filename(f.name)),
                        "Found products")

\* -------------------------------------------------------------------- main

\* a < b on str: by code point, a proper prefix first
str_less(a, b) ==
  \E i \in 1..(Len(a) + 1) :
     /\ \A j \in 1..(i - 1) : j <= Len(b) /\ a[j] = b[j]
     /\ i <= Len(b)
     /\ (i > Len(a) \/ CharCode[a[i]] < CharCode[b[i]])

\* sorted(S) of a set of strings
RECURSIVE sorted(_)
sorted(S) ==
  IF S = {} THEN << >>
  ELSE LET least == CHOOSE a \in S : \A b \in S \ {a} : str_less(a, b)
       IN <<least>> \o sorted(S \ {least})

\* sorted(excel_files): paths of one directory compare by their names
RECURSIVE sorted_files(_)
sorted_files(F) ==
  IF F = {} THEN << >>
  ELSE LET first == CHOOSE f \in F : \A g \in F \ {f} : str_less(f.name, g.name)
       IN <<first>> \o sorted_files(F \ {first})

\* (x['brand'], x['name']) < (y['brand'], y['name'])
key_less(x, y) ==
  \/ str_less(x.brand, y.brand)
  \/ x.brand = y.brand /\ str_less(x.name, y.name)

RECURSIVE insert_by_key(_, _)
insert_by_key(ps, x) ==
  IF ps = << >> THEN <<x>>
  ELSE IF key_less(x, Head(ps)) THEN <<x>> \o ps
  ELSE <<Head(ps)>> \o insert_by_key(Tail(ps), x)

\* list.sort(key=...): stable
RECURSIVE sort_by_brand_name(_)
sort_by_brand_name(ps) ==
  IF ps = << >> THEN << >>
  ELSE insert_by_key(sort_by_brand_name(SubSeq(ps, 1, Len(ps) - 1)), ps[Len(ps)])

\* p['category'] = categorize_product(p['name'])
with_category(p) ==
  [code |-> p.code, name |-> p.name, unit |-> p.unit, price |-> p.price,
   brand |-> p.brand, category |-> categorize_product(p.name)]

\* The brands as they would be if the brand of every file were added
add_brands_of_file(bs, f, ps) == bs \cup {extract_brand_from_filename(f.name)}

\* brands.add(p['brand']) for the products of file f
add_brands(bs, f, ps) == bs \cup {ps[i].brand : i \in 1..Len(ps)}

\* The catalog: the output dict
build_output(ps, bs) ==
  [products |-> ps,
   brands |-> sorted(bs),
   categories |-> sorted({ps[i].category : i \in 1..Len(ps)}),
   total_products |-> Len(ps)]

\* What json.dump writes, in the order it writes it: the opening of the
\* document, each product, then the other three keys
Chunk(k, v) == [key |-> k, val |-> v]

document(out) ==
  <<Chunk("{", 0)>>
  \o [i \in 1..Len(out.products) |-> Chunk("products", out.products[i])]
  \o <<Chunk("brands", out.brands), Chunk("categories", out.categories),
       Chunk("total_products", out.total_products)>>

\* ------------------------------------------------- the files of a portfolio

Sheet1 ==
  << <<Text(<<"L","I","S","T","A"," ","D","E"," ","P","R","E","C","I","O","S">>), NA, NA, NA>>,
     <<NA, NA, NA, NA>>,
     <<Text(<<"C","O'","D","I","G","O">>), Text(<<"P","R","O","D","U","C","T","O">>), Text(<<"U","N","I","D","A","D">>), Text(<<"P","."," ","F","I","N","A","L">>)>>,
     <<Text(<<"0","0","1">>), Text(<<"L","E","C","H","E"," ","E","N","T","E","R","A">>), Text(<<"L","T">>), Num(4500)>> >>

Sheet2 ==
  << <<Text(<<"C","o","d","i","g","o">>), Text(<<"N","o","m","b","r","e">>), Text(<<"P","r","e","c","i","o">>)>>,
     <<Text(<<"A","2">>), Text(<<"C","a","f","e"," ","m","o","l","i","d","o">>), Text(<<"7",".","5","0">>)>>,
     <<Text(<<"A","1">>), Text(<<"A","R","E","Q","U","I","P","E">>), Num(3000)>>,
     <<NA, NA, NA>>,
     <<Text(<<"A","3">>), Text(<<"X","Y">>), Num(1)>> >>

Sheet3 ==
  << <<Text(<<"C","O","D","I","G","O">>), Text(<<"P","R","O","D","U","C","T","O">>)>>,
     <<Num(5), Text(<<"M","I","E","L">>)>> >>

Sheet4 ==
  << <<Text(<<"P","R","O","D","U","C","T","O">>), Text(<<"P","R","E","C","I","O">>)>>,
     <<Text(<<"M","I","L","O">>), Num(5)>> >>

File(n, r, s) == [name |-> n, reads |-> r, sheet |-> s]

FilePool ==
  { File(<<"L","E","C","H","E","R","I","A"," ","2","6",".","x","l","s","x">>, "ok", Sheet1),
    File(<<"A","L","P","I","N","A"," ","2","5",".","x","l","s","x">>, "ok", Sheet2),
    File(<<"A","L","P","I","N","A",".","x","l","s">>, "ok", Sheet3),
    File(<<"C","O","L","A","N","T","A"," ","2","0","2","5",".","o","d","s">>, "read_error", Sheet1),
    File(<<"B","R","A","N","D"," ","7",".","x","l","s">>, "reread_error", Sheet3),
    File(<<"K","L","I","M"," ","2","0","2","4",".","x","l","s">>, "ok", Sheet4) }

\* OUTPUT_FILE: whether it exists, and the chunks it holds
Absent == [exists |-> FALSE, chunks |-> << >>]
Holds(cs) == [exists |-> TRUE, chunks |-> cs]

OldDocument == Holds(<<Chunk("{", 0), Chunk("total_products", 0)>>)

\* ------------------------------------------------------- SpecMain: main()

InitMain ==
  /\ pc = "main"
  /\ portfolio \in SUBSET FilePool
  /\ site_data \in {Absent, OldDocument}
  /\ excel_files = << >> /\ file_i = 0
  /\ all_products = << >> /\ brands = {} /\ output = << >> /\ log = << >>
  /\ IdleBrand /\ IdlePrice /\ IdleCategory /\ IdleColumns /\ IdleRows

otherVars == <<brandVars, priceVars, catVars, colVars, rowVars>>

\* OUTPUT_FILE.parent.mkdir(exist_ok=True) raises: the run ends
MkdirFails ==
  /\ pc = "main"
  /\ pc' = "crashed"
  /\ UNCHANGED <<mainVars, otherVars>>

\* mkdir, the three globs, sorted()
FindFiles ==
  /\ pc = "main"
  /\ excel_files' = sorted_files(portfolio)
  /\ pc' = "loop"
  /\ UNCHANGED <<portfolio, file_i, all_products, brands, output, site_data, log,
                 otherVars>>

\* One iteration of the loop over sorted(excel_files)
ProcessFile ==
  /\ pc = "loop"
  /\ file_i < Len(excel_files)
  /\ LET f == excel_files[file_i + 1]
         r == process_excel_file(f)
         ps == [i \in 1..Len(r.products) |-> with_category(r.products[i])]
     IN /\ log' = Append(log, [file |-> f.name, line |-> r.printed])
        /\ IF r.raised
           THEN /\ pc' = "crashed"
                /\ UNCHANGED <<file_i, all_products, brands>>
           ELSE /\ pc' = "loop"
                /\ file_i' = file_i + 1
                /\ brands' = add_brands(brands, f, ps)
                /\ all_products' = all_products \o ps
  /\ UNCHANGED <<portfolio, excel_files, output, site_data, otherVars>>

\* The sort, the categories and the output dict
BuildCatalog ==
  /\ pc = "loop"
  /\ file_i = Len(excel_files)
  /\ all_products' = sort_by_brand_name(all_products)
  /\ output' = <<build_output(all_products', brands)>>
  /\ pc' = "open"
  /\ UNCHANGED <<portfolio, excel_files, file_i, brands, site_data, log, otherVars>>

\* open(OUTPUT_FILE, 'w') raises: the file is as it was
OpenFails ==
  /\ pc = "open"
  /\ pc' = "crashed"
  /\ UNCHANGED <<mainVars, otherVars>>

\* open(OUTPUT_FILE, 'w'): the file is created or truncated
OpenOutput ==
  /\ pc = "open"
  /\ site_data' = Holds(<< >>)
  /\ pc' = "write"
  /\ UNCHANGED <<portfolio, excel_files, file_i, all_products, brands, output, log,
                 otherVars>>

\* json.dump writes its next chunk
WriteChunk ==
  /\ pc = "write"
  /\ Len(site_data.chunks) < Len(document(output[1]))
  /\ site_data' = Holds(Append(site_data.chunks,
                        document(output[1])[Len(site_data.chunks) + 1]))
  /\ pc' = "write"
  /\ UNCHANGED <<portfolio, excel_files, file_i, all_products, brands, output, log,
                 otherVars>>

\* A write raises (the disk is full, the device fails): the with block closes
\* the file with what was written, and the run ends
WriteFails ==
  /\ pc = "write"
  /\ Len(site_data.chunks) < Len(document(output[1]))
  /\ pc' = "crashed"
  /\ UNCHANGED <<mainVars, otherVars>>

\* The with block ends, the totals are printed
Finish ==
  /\ pc = "write"
  /\ Len(site_data.chunks) = Len(document(output[1]))
  /\ pc' = "done"
  /\ UNCHANGED <<mainVars, otherVars>>

NextMain ==
  \/ MkdirFails \/ FindFiles \/ ProcessFile \/ BuildCatalog
  \/ OpenFails \/ OpenOutput \/ WriteChunk \/ WriteFails \/ Finish

SpecMain == InitMain /\ [][NextMain]_vars

\* ================================================================ properties

Elems(ss) == {ss[i] : i \in 1..Len(ss)}

Ascending(ss) == \A i \in 1..(Len(ss) - 1) : str_less(ss[i], ss[i + 1])

Count(ss, x) == Cardinality({i \in 1..Len(ss) : ss[i] = x})

SameRecords(a, b) ==
  /\ Len(a) = Len(b)
  /\ \A x \in Elems(a) \cup Elems(b) : Count(a, x) = Count(b, x)

Blank(cell) == isna(cell) \/ strip(str(cell)) = << >>

\* ------------------------------------------------------------------ C1

\* C1: the catalog main() builds has total_products equal to the number of
\* products, brands exactly the distinct brands of the products in ascending
\* order without duplicates, and categories exactly their distinct categories
\* in ascending order, whatever files were processed and however each ended.
C1_CatalogConsistent ==
  \A catalog \in Elems(output) :
    /\ catalog.total_products = Len(catalog.products)
    /\ Ascending(catalog.brands)
    /\ Elems(catalog.brands) = {p.brand : p \in Elems(catalog.products)}
    /\ Ascending(catalog.categories)
    /\ Elems(catalog.categories) = {p.category : p \in Elems(catalog.products)}

\* A catalog of several products, two files sharing a brand, a file that
\* yielded nothing
C1_Witness ==
  /\ output /= << >>
  /\ Len(output[1].products) >= 3
  /\ Len(output[1].brands) >= 2
  /\ Len(output[1].brands) < Len(output[1].products)
  /\ \E f \in portfolio : process_excel_file(f).products = << >>

\* ------------------------------------------------------------------ C2

\* C2: every record process_excel_file emits for a data row has a code that is
\* non-empty after trimming and a name that is non-empty after trimming and
\* longer than 2 characters; a row whose code or name is missing or blank, or
\* whose trimmed name has at most 2 characters, produces no record.
C2_RecordsHaveCodeAndName ==
  pc = "rows_done" =>
    /\ \A p \in Elems(products) :
          /\ strip(p.code) /= << >>
          /\ strip(p.name) /= << >>
          /\ Len(p.name) > 2
          /\ Len(strip(p.name)) > 2
    /\ (Blank(row[1]) \/ Blank(row[2]) \/ Len(strip(str(row[2]))) <= 2)
          => products = << >>

\* A record emitted from a numeric code and a padded name
C2_Witness ==
  /\ pc = "rows_done"
  /\ row[1] = Num(7)
  /\ row[2] = Text(<<" ","L","E","C","H","E"," ">>)
  /\ Len(products) = 1
  /\ products[1].name = <<"L","E","C","H","E">>

\* ------------------------------------------------------------------ C3

CategoryHits(name_upper) ==
  {i \in 1..Len(categories) :
     \E kw \in Elems(categories[i].keywords) : contains(name_upper, kw)}

\* C3: categorize_product returns the first category, in the order of the
\* table, that has a keyword occurring in the uppercased name, and "Otros"
\* exactly when no keyword of any category occurs; a name with a keyword of
\* "Cafe y Chocolate" is never given a later category, and a name with
\* AREQUIPE, listed under two categories, is never given the later of them.
C3_FirstCategoryInTableOrder ==
  pc = "category_done" =>
    LET hits == CategoryHits(upper(product_name))
    IN /\ (category = Otros) <=> (hits = {})
       /\ hits /= {} =>
            \E i \in hits : /\ category = categories[i].category
                            /\ \A j \in hits : i <= j
       /\ 1 \in hits => category = <<"C","a","f","e'"," ","y"," ","C","h","o","c","o","l","a","t","e">>
       /\ contains(upper(product_name), <<"A","R","E","Q","U","I","P","E">>)
            => category /= <<"D","u","l","c","e","s"," ","y"," ","C","o","n","f","i","t","e","r","i'","a">>

\* A name with a keyword of the first category and one of a later category
C3_Witness ==
  /\ pc = "category_done"
  /\ contains(upper(product_name), <<"C","A","F","E">>)
  /\ contains(upper(product_name), <<"L","E","C","H","E">>)
  /\ category = <<"C","a","f","e'"," ","y"," ","C","h","o","c","o","l","a","t","e">>

\* ------------------------------------------------------------------ C4

\* The role the if/elif chain gives a label: the first, in the order code,
\* name, unit, price, whose keyword the label contains
ChainRole(col) ==
  IF contains(col, <<"C","O'","D","I","G","O">>) \/ contains(col, <<"C","O","D","I","G","O">>) THEN "code"
  ELSE IF contains(col, <<"P","R","O","D","U","C","T","O">>) \/ contains(col, <<"N","O","M","B","R","E">>) THEN "name"
  ELSE IF contains(col, <<"U","N","I","D","A","D">>) THEN "unit"
  ELSE IF contains(col, <<"F","I","N","A","L">>) THEN "price"
  ELSE "none"

LastWithRole(r) ==
  LET hits == {i \in 1..Len(columns) : ChainRole(columns[i]) = r}
  IN IF hits = {} THEN None
     ELSE columns[CHOOSE i \in hits : \A j \in hits : j <= i]

\* The first of the labels at the given places
FirstAt(hits) ==
  IF hits = {} THEN None
  ELSE columns[CHOOSE i \in hits : \A j \in hits : i <= j]

Places == 1..Len(columns)

HasPrecio(col) == contains(col, <<"P","R","E","C","I","O">>)

HasFinal(col) == contains(col, <<"F","I","N","A","L">>)

\* C4 (as amended): for each role the column chosen is the last label, in
\* label iteration order, that contains the role's keyword and no keyword of
\* an earlier role (code, then name, then unit, then price by FINAL): of two
\* labels matching the same role the later one is mapped.  Only the PRECIO
\* fallback, taken when no label was mapped to price, takes the first label
\* containing PRECIO.  A role no label matches stays unmapped.
C4_LastMatchWins ==
  pc = "columns_done" =>
    /\ code_col = LastWithRole("code")
    /\ name_col = LastWithRole("name")
    /\ unit_col = LastWithRole("unit")
    /\ price_col = IF LastWithRole("price") /= None THEN LastWithRole("price")
                   ELSE FirstAt({i \in Places : HasPrecio(columns[i])})

\* Two labels of the code role, the later one mapped
C4_Witness ==
  /\ pc = "columns_done"
  /\ \E i, j \in 1..Len(columns) :
        /\ i < j
        /\ ChainRole(columns[i]) = "code"
        /\ ChainRole(columns[j]) = "code"
        /\ code_col = columns[j]
        /\ code_col /= columns[i]

FirstWithRole(r) == FirstAt({i \in Places : ChainRole(columns[i]) = r})

\* C4 (as claimed): for each role the first label, in label iteration order,
\* that matches the role's keyword rule is the column chosen; of two labels
\* matching the same role the earlier one is mapped.  (A label that contains
\* the keywords of two roles is counted for the earlier role of the chain.)
C4_FirstMatchWins ==
  pc = "columns_done" =>
    /\ code_col = FirstWithRole("code")
    /\ name_col = FirstWithRole("name")
    /\ unit_col = FirstWithRole("unit")
    /\ price_col = IF FirstWithRole("price") /= None THEN FirstWithRole("price")
                   ELSE FirstAt({i \in Places : HasPrecio(columns[i])})

\* ------------------------------------------------------------------ C5

\* C5: the price role is resolved to a label containing FINAL whenever the
\* sheet has any label containing FINAL, and a label containing PRECIO (and
\* not FINAL) is used for price only when no label of the sheet contains
\* FINAL, also when labels contain a keyword of another role.
C5_FinalBeforePrecio ==
  pc = "columns_done" =>
    /\ (\E i \in 1..Len(columns) : HasFinal(columns[i]))
          => (price_col /= None /\ HasFinal(price_col))
    /\ (price_col /= None /\ HasPrecio(price_col) /\ ~HasFinal(price_col))
          => ~(\E i \in 1..Len(columns) : HasFinal(columns[i]))

\* ------------------------------------------------------------------ C6

HeaderLiterals == { <<"C","O'","D","I","G","O">>, <<"C","O","D","I","G","O">> }

\* C6: a data row whose code cell, trimmed and uppercased, is the header
\* literal CODIGO (with or without its accent) produces no record, whatever
\* its other cells hold; no emitted record has such a code.
C6_HeaderRowSkipped ==
  pc = "rows_done" =>
    /\ (~isna(row[1]) /\ upper(strip(str(row[1]))) \in HeaderLiterals)
          => products = << >>
    /\ \A p \in Elems(products) : upper(strip(p.code)) \notin HeaderLiterals

\* ------------------------------------------------------------------ C7

Unparsable(s) ==
  LET kept == SelectSeq(s, LAMBDA c : isdigit(c) \/ c = "." \/ c = ",")
      seps == Cardinality({i \in 1..Len(kept) : ~isdigit(kept[i])})
  IN seps >= 2 \/ seps = Len(kept)

\* C7 (as amended): the price of a record is 0.0 for a missing cell, the value
\* itself for a numeric cell, a negative value included, 0.0 for text that
\* does not parse once only digits, commas and periods are kept and commas are
\* made periods, never negative for a missing or a text cell, and 0.0 without
\* a price column: a price is negative only when its cell is a negative number.
C7_NegativeOnlyFromNumericCell ==
  pc = "price_done" =>
    /\ price_col = None => price = Zero
    /\ (price_col /= None /\ isna(value)) => price = Zero
    /\ (price_col /= None /\ value.t = "num") => price = Float(value.v, 0)
    /\ (price_col /= None /\ value.t = "str") =>
          /\ price.mant >= 0
          /\ Unparsable(value.s) => price = Zero
          /\ price = Zero =>
                \/ Unparsable(value.s)
                \/ \A i \in 1..Len(value.s) : isdigit(value.s[i]) => value.s[i] = "0"
    /\ price.mant < 0 => (value.t = "num" /\ value.v < 0)

\* A negative numeric cell under a price column
C7_Witness ==
  /\ pc = "price_done"
  /\ price_col /= None
  /\ value = Num(0 - 2)
  /\ price = Float(0 - 2, 0)

\* C7 (as claimed): the price of every record is a non-negative number: 0.0
\* for a missing cell, the value itself for a numeric cell, 0.0 for text that
\* does not parse once only digits, commas and periods are kept and commas are
\* made periods, never negative for any cell, a negative numeric cell
\* included, and 0.0 without a price column.  (The value itself is asked of
\* the numeric cells that are not negative, so that the formula asks nothing
\* impossible of a negative one.)
C7_PriceNeverNegative ==
  pc = "price_done" =>
    /\ price.mant >= 0
    /\ price_col = None => price = Zero
    /\ (price_col /= None /\ isna(value)) => price = Zero
    /\ (price_col /= None /\ value.t = "num" /\ value.v >= 0)
          => price = Float(value.v, 0)
    /\ (price_col /= None /\ value.t = "str" /\ Unparsable(value.s))
          => price = Zero

\* ------------------------------------------------------------------ C8

\* A file that cannot be read or parsed, or whose labels resolve no code
\* column or no name column
FailingFile(f) ==
  \/ f.reads /= "ok"
  \/ LET cols == sheet_columns(f.sheet)
     IN \/ ~(\E i \in 1..Len(cols) : ChainRole(cols[i]) = "code")
        \/ ~(\E i \in 1..Len(cols) : ChainRole(cols[i]) = "name")

\* The records of a file that does not fail, with their categories
FileRecords(f) ==
  LET cols == sheet_columns(f.sheet)
      ps == rows_loop(cols, sheet_rows(f.sheet), 1, map_columns(cols),
                      extract_brand_from_filename(f.name))
  IN [i \in 1..Len(ps) |-> with_category(ps[i])]

\* The records of the files other than the failing ones among the first k
RECURSIVE RecordsOfOthers(_)
RecordsOfOthers(k) ==
  IF k = 0 THEN << >>
  ELSE RecordsOfOthers(k - 1)
       \o (IF FailingFile(excel_files[k]) THEN << >> ELSE FileRecords(excel_files[k]))

\* C8: a file that cannot be read or parsed, or whose labels resolve no code
\* or no name column, contributes no record and does not stop the run: the
\* loop goes through every file in sorted order (the run ends early only
\* outside the loop), and the catalog a completed run has written holds
\* exactly the records of the other files, each once, none dropped or altered.
C8_FailingFileIsSkipped ==
  /\ pc = "crashed" => file_i = Len(excel_files)
  /\ pc \in {"loop", "open", "write", "done"} =>
       /\ Elems(excel_files) = portfolio
       /\ Ascending([i \in 1..Len(excel_files) |-> excel_files[i].name])
       /\ Len(log) = file_i
       /\ \A i \in 1..file_i : log[i].file = excel_files[i].name
  /\ pc \in {"open", "write", "done"} => file_i = Len(excel_files)
  /\ pc = "loop" => all_products = RecordsOfOthers(file_i)
  /\ pc = "done" =>
       /\ site_data = Holds(document(output[1]))
       /\ SameRecords(output[1].products, RecordsOfOthers(Len(excel_files)))

\* A completed run in which an unreadable file and a file without a code
\* column each come before a file that yields records
C8_Witness ==
  /\ pc = "done"
  /\ \E i, j, k \in 1..Len(excel_files) :
        /\ i < k /\ j < k
        /\ excel_files[i].reads = "read_error"
        /\ excel_files[j].reads = "ok" /\ FailingFile(excel_files[j])
        /\ ~FailingFile(excel_files[k])
        /\ FileRecords(excel_files[k]) /= << >>
  /\ Len(output[1].products) >= 1

\* ------------------------------------------------------------------ C9

\* C9: the output document is written all-or-nothing: when the run has ended,
\* also when a write failed part-way, the output path holds either the
\* complete catalog or what it held before the run; never a truncated file.
C9_AllOrNothing ==
  pc \in {"done", "crashed"} =>
    \/ output /= << >> /\ site_data = Holds(document(output[1]))
    \/ site_data \in {Absent, OldDocument}

\* ------------------------------------------------------------------ C10

WithoutExt(fname) == SubSeq(fname, 1, Len(fname) - Len(Ext))

TrailingDigits(s) ==
  CHOOSE d \in 0..Len(s) :
     /\ \A j \in (Len(s) - d + 1)..Len(s) : isdigit(s[j])
     /\ d = Len(s) \/ ~isdigit(s[Len(s) - d])

\* C10 (as amended): for a file name with a non-empty base name, the brand is
\* the name without its extension, with its trailing digits removed when it
\* ends in 2 to 4 digits, whether or not whitespace precedes them, and with
\* its last 4 digits removed when it ends in 5 or more digits, then trimmed;
\* a name ending in fewer than 2 digits yields its extension-less name,
\* trimmed.  This value is the brand of every record of the file.
C10_TrailingDigitsRemoved ==
  (pc = "brand_done" /\ Len(filename) > Len(Ext)) =>
    LET stem == WithoutExt(filename)
        d == TrailingDigits(stem)
        cut == IF d < 2 THEN 0 ELSE IF d <= 4 THEN d ELSE 4
    IN /\ brand = strip(SubSeq(stem, 1, Len(stem) - cut))
       /\ \A p \in Elems(products) : p.brand = brand

\* A name ending in five digits, a record stamped with its brand
C10_Witness ==
  /\ pc = "brand_done"
  /\ TrailingDigits(WithoutExt(filename)) = 5
  /\ brand = <<"A", "2">>
  /\ Len(products) = 1
  /\ products[1].brand = brand

\* Whether s ends in whitespace followed by 2 to 4 digits
YearToken(s, d) ==
  /\ d < Len(s)
  /\ \A j \in (Len(s) - d + 1)..Len(s) : isdigit(s[j])
  /\ isspace(s[Len(s) - d])

\* C10 (as claimed): the brand is the name without its extension, with one
\* trailing token of whitespace followed by 2 to 4 digits removed when the
\* name ends in such a token, then trimmed; a name that does not end in such
\* a token (digits not preceded by whitespace, 5 or more digits) keeps its
\* extension-less name.  This value is the brand of every record of the file.
C10_YearTokenNeedsWhitespace ==
  (pc = "brand_done" /\ Len(filename) > Len(Ext)) =>
    LET stem == WithoutExt(filename)
    IN /\ brand = IF \E d \in 2..4 : YearToken(stem, d)
                  THEN strip(SubSeq(stem, 1,
                         Len(stem) - (CHOOSE d \in 2..4 : YearToken(stem, d))))
                  ELSE strip(stem)
       /\ \A p \in Elems(products) : p.brand = brand

====
